---------------------------- MODULE Spec2Model ----------------------------
(***************************************************************************)
(* Heart-disease risk assessment front end: the patient intake form        *)
(* (PatientForm), the doctor login (DoctorLogin) and the doctor dashboard  *)
(* (DoctorDashboard), modelled as state machines over the React state of   *)
(* each component.  Every event handler is one action; the part of an      *)
(* async handler that runs after its await is a second action (...Resume)  *)
(* that takes the server's answer as its input.                            *)
(*                                                                         *)
(* Three output variables describe what the latest step did and are reset  *)
(* by every step: op (the handler that ran), alertMsg (the text given to   *)
(* window.alert, "" when none) and sent (the requests given to fetch).     *)
(***************************************************************************)
EXTENDS Integers, Sequences, FiniteSets, TLC

VARIABLES
    \* ---- PatientForm (src/unnamed/part_001) ----
    currentStep,    \* useState(1)
    formData,       \* useState(initialFormData)
    result,         \* useState(null): the displayed prediction
    loading,        \* useState(false)
    fileResult,     \* useState(null): the displayed batch result
    fileLoading,    \* useState(false)
    pendingPredict, \* handleSubmit calls suspended at their await
    pendingUpload,  \* handleFileUpload calls suspended at their await, oldest
                    \* first: the file each posted, and whether the answer
                    \* to a later call has already arrived (overtaken)
    \* ---- DoctorLogin (src/src/pages/DoctorLogin.tsx) ----
    variant,        \* which of the file's two DoctorLogin components is mounted
    email,          \* useState("")
    password,       \* useState("")
    remember,       \* useState(true)
    loginLoading,   \* useState(false)
    error,          \* useState(null); "" stands for null
    localStorage,   \* window.localStorage: key -> value, NoItem when absent
    sessionStorage, \* window.sessionStorage
    location,       \* the router's current path
    pendingLogin,   \* handleSubmit calls suspended at their await: the email
                    \* and remember values their closures captured
    \* ---- DoctorDashboard (src/src/pages/DoctorDashboard.tsx) ----
    records,        \* useState([])
    dashLoading,    \* useState(false)
    selectedId,     \* useState("")
    notesText,      \* useState("")
    saving,         \* useState(false)
    message,        \* useState(null); "" stands for null
    pendingFetch,   \* fetchRecords calls suspended at their await, oldest
                    \* first: whether each was overtaken by a later call
    pendingSave,    \* saveNote calls suspended at their await
    memo,           \* the useMemo cell of aiSuggestion: the dependencies of
                    \* the latest computation and its value
    \* ---- outputs of the latest step ----
    op,             \* the handler (and branch) that ran
    alertMsg,       \* window.alert text raised by the step, "" when none
    sent,           \* requests handed to fetch by the step
    effects         \* storage writes and navigations of the step, in order

formVars == <<currentStep, formData, result, loading, fileResult, fileLoading,
              pendingPredict, pendingUpload>>
loginVars == <<variant, email, password, remember, loginLoading, error,
               localStorage, sessionStorage, location, pendingLogin>>
dashVars == <<records, dashLoading, selectedId, notesText, saving, message,
              pendingFetch, pendingSave, memo>>
outVars == <<op, alertMsg, sent, effects>>
vars == <<formVars, loginVars, dashVars, outVars>>

(***************************************************************************)
(* Bounds of the exploration.                                              *)
(***************************************************************************)
\* A record differs from an answered-in-order record in at most this many fields.
MaxEdits == 0
\* handleSubmit calls suspended at the same time.
MaxPending == 1
\* handleFileUpload calls, and fetchRecords calls, suspended at the same time:
\* with two, the answers can arrive out of order.
MaxInFlight == 2

(***************************************************************************)
(* JavaScript values.  A value is a record of one shape so that values of   *)
(* different JS types can be compared: k is the type tag.                  *)
(***************************************************************************)
JStr(s) == [k |-> "str", n |-> 0, s |-> s]
JNum(n) == [k |-> "num", n |-> n, s |-> ""]
JNull == [k |-> "null", n |-> 0, s |-> ""]
JUndef == [k |-> "undef", n |-> 0, s |-> ""]
JNaN == [k |-> "nan", n |-> 0, s |-> ""]

\* Number(x): a numeric string parses to its number, "" to 0, null to 0,
\* undefined and any other string to NaN.
ParseNumber(s) ==
    CASE s = "" -> JNum(0)
      [] s = "0" -> JNum(0)
      [] s = "1" -> JNum(1)
      [] s = "2" -> JNum(2)
      [] s = "3" -> JNum(3)
      [] OTHER -> JNaN

Number(v) ==
    CASE v.k = "num" -> v
      [] v.k = "str" -> ParseNumber(v.s)
      [] v.k = "null" -> JNum(0)
      [] OTHER -> JNaN

\* !x
Falsy(v) ==
    \/ v.k \in {"null", "undef", "nan"}
    \/ v.k = "str" /\ v.s = ""
    \/ v.k = "num" /\ v.n = 0

\* JSON.stringify of a number-or-null: NaN is written as null.
JsonValue(v) == IF v.k = "nan" THEN JNull ELSE v

\* Array.prototype.join
RECURSIVE Join(_, _)
Join(seq, sep) ==
    IF Len(seq) = 0 THEN ""
    ELSE IF Len(seq) = 1 THEN seq[1]
    ELSE seq[1] \o sep \o Join(Tail(seq), sep)

SeqToSet(seq) == {seq[i] : i \in 1..Len(seq)}

(***************************************************************************)
(* PatientForm: constants                                                  *)
(***************************************************************************)
totalSteps == 6

\* requiredFields with the label listed as well.
requiredFieldsWithLabel ==
    <<"age", "sex", "cp", "trestbps", "chol", "fbs", "restecg", "thalach",
      "exang", "oldpeak", "slope", "ca", "thal", "target">>

requiredFields ==
    <<"age", "sex", "cp", "trestbps", "chol", "fbs", "restecg", "thalach",
      "exang", "oldpeak", "slope", "ca", "thal">>

numericFields == requiredFields \o <<"target">>

\* keyof FormData
FieldNames == SeqToSet(numericFields)

initialFormData == [f \in FieldNames |-> JStr("")]

\* renderStepContent: the inputs rendered at each step.
StepFields(step) ==
    CASE step = 1 -> {"age", "sex"}
      [] step = 2 -> {"cp", "exang"}
      [] step = 3 -> {"trestbps", "thalach", "restecg", "slope"}
      [] step = 4 -> {"chol", "fbs", "oldpeak"}
      [] step = 5 -> {"ca", "thal"}
      [] step = 6 -> {"target"}
      [] OTHER -> {}

\* The files the user may pick in the file input.
Files == {"a.csv", "b.csv"}

\* e.target.value of the inputs and selects: "" (cleared / placeholder
\* option) or a numeric string.
InputStrings == {"", "0", "1"}

\* The order in which the steps present the fields, and the answer the
\* user gives to each when filling the form in order.
FillOrder ==
    <<"age", "sex", "cp", "exang", "trestbps", "thalach", "restecg", "slope",
      "chol", "fbs", "oldpeak", "ca", "thal", "target">>

SampleAnswer(f) == IF f \in {"sex", "exang", "fbs", "ca"} THEN "0" ELSE "1"

\* AnsweredRecords[k]: formData after the first k questions were answered
\* in order.
AnsweredRecords ==
    [k \in 0..Len(FillOrder) |->
        [f \in FieldNames |->
            IF \E i \in 1..k : FillOrder[i] = f
            THEN ParseNumber(SampleAnswer(f)) ELSE JStr("")]]

AnsweredUpTo(k) == AnsweredRecords[k]

Distance(a, b) == Cardinality({f \in FieldNames : a[f] # b[f]})

\* The records explored: those within MaxEdits fields of a record reached by
\* answering the questions in order.
WithinBounds(fd) ==
    \E k \in DOMAIN AnsweredRecords : Distance(fd, AnsweredRecords[k]) <= MaxEdits

(***************************************************************************)
(* PatientForm: derived values                                             *)
(***************************************************************************)
\* Emptiness tested as falsiness (!val): it would take 0 for unset.
IsFalsyBlank(v) == Falsy(v)

\* val === "" || val === null || val === undefined
IsBlank(v) == v = JStr("") \/ v = JNull \/ v = JUndef

missingRequiredOf(fd) == SelectSeq(requiredFields, LAMBDA f : IsBlank(fd[f]))

missingRequired == missingRequiredOf(formData)

\* A payload built from the whole record, label included.
payloadOfWholeRecord(fd) ==
    [f \in DOMAIN fd |->
        IF IsBlank(fd[f]) THEN JNull ELSE JsonValue(Number(fd[f]))]

\* The payload built by handleSubmit, as JSON.stringify writes it.
payloadOf(fd) ==
    [f \in SeqToSet(requiredFields) |->
        IF IsBlank(fd[f]) THEN JNull ELSE JsonValue(Number(fd[f]))]

MissingAlert(missing) ==
    "Please fill required fields before submitting: " \o Join(missing, ", ")

(***************************************************************************)
(* Server answers to /predict and /predict-file.  fetch rejects (transport *)
(* failure), or resolves with res.ok and a body; res.json() throws on a    *)
(* body that is not JSON, and yields null for the JSON text null.          *)
(***************************************************************************)
NoData == [isNull |-> TRUE, error |-> "", id |-> ""]
Data(err, id) == [isNull |-> FALSE, error |-> err, id |-> id]

\* Bodies: null, {error: "..."} and a result object without an error field.
Bodies == {NoData, Data("Invalid input", ""), Data("", "r1")}

Responses ==
    [kind : {"reject"}, ok : {FALSE}, data : {NoData}]
    \cup [kind : {"notjson"}, ok : BOOLEAN, data : {NoData}]
    \cup [kind : {"json"}, ok : BOOLEAN, data : Bodies]

(***************************************************************************)
(* PatientForm: handlers                                                   *)
(***************************************************************************)
\* handleInputChange were it to discard the displayed prediction.
handleInputChangeClearingResult(field, value) ==
    LET newValue == IF field \in SeqToSet(numericFields) /\ value # ""
                    THEN Number(JStr(value)) ELSE JStr(value)
        fd == [formData EXCEPT ![field] = newValue]
    IN  /\ WithinBounds(fd)
        /\ formData' = fd
        /\ result' = NoData
        /\ op' = "handleInputChange"
        /\ alertMsg' = ""
        /\ sent' = <<>>
        /\ effects' = <<>>
        /\ UNCHANGED <<loginVars, dashVars>>
        /\ UNCHANGED <<currentStep, loading, fileResult, fileLoading,
                       pendingPredict, pendingUpload>>

handleInputChange(field, value) ==
    LET newValue == IF field \in SeqToSet(numericFields) /\ value # ""
                    THEN Number(JStr(value)) ELSE JStr(value)
        fd == [formData EXCEPT ![field] = newValue]
    IN  /\ WithinBounds(fd)
        /\ formData' = fd
        /\ op' = "handleInputChange"
        /\ alertMsg' = ""
        /\ sent' = <<>>
        /\ effects' = <<>>
        /\ UNCHANGED <<loginVars, dashVars>>
        /\ UNCHANGED <<currentStep, result, loading, fileResult, fileLoading,
                       pendingPredict, pendingUpload>>

\* nextStep with an off-by-one guard: it would step past the last step.
nextStepOffByOne ==
    /\ currentStep' = IF currentStep <= totalSteps THEN currentStep + 1
                      ELSE currentStep
    /\ op' = IF currentStep <= totalSteps THEN "nextStep" ELSE "nextStep:noop"
    /\ alertMsg' = ""
    /\ sent' = <<>>
    /\ effects' = <<>>
    /\ UNCHANGED <<loginVars, dashVars>>
    /\ UNCHANGED <<formData, result, loading, fileResult, fileLoading,
                   pendingPredict, pendingUpload>>

nextStep ==
    /\ currentStep' = IF currentStep < totalSteps THEN currentStep + 1
                      ELSE currentStep
    /\ op' = IF currentStep < totalSteps THEN "nextStep" ELSE "nextStep:noop"
    /\ alertMsg' = ""
    /\ sent' = <<>>
    /\ effects' = <<>>
    /\ UNCHANGED <<loginVars, dashVars>>
    /\ UNCHANGED <<formData, result, loading, fileResult, fileLoading,
                   pendingPredict, pendingUpload>>

prevStep ==
    /\ currentStep' = IF currentStep > 1 THEN currentStep - 1 ELSE currentStep
    /\ op' = IF currentStep > 1 THEN "prevStep" ELSE "prevStep:noop"
    /\ alertMsg' = ""
    /\ sent' = <<>>
    /\ effects' = <<>>
    /\ UNCHANGED <<loginVars, dashVars>>
    /\ UNCHANGED <<formData, result, loading, fileResult, fileLoading,
                   pendingPredict, pendingUpload>>

\* handleSubmit clearing the displayed result before it looks at the missing
\* fields.
handleSubmitClearingFirst ==
    /\ effects' = <<>>
    /\ UNCHANGED <<loginVars, dashVars>>
    /\ IF Len(missingRequired) > 0
       THEN /\ op' = "handleSubmit"
            /\ alertMsg' = MissingAlert(missingRequired)
            /\ sent' = <<>>
            /\ result' = NoData
            /\ UNCHANGED <<currentStep, formData, loading, fileResult,
                           fileLoading, pendingPredict, pendingUpload>>
       ELSE /\ pendingPredict < MaxPending
            /\ loading' = TRUE
            /\ result' = NoData
            /\ sent' = <<[url |-> "/predict", body |-> payloadOf(formData),
                           file |-> ""]>>
            /\ pendingPredict' = pendingPredict + 1
            /\ op' = "handleSubmit"
            /\ alertMsg' = ""
            /\ UNCHANGED <<currentStep, formData, fileResult, fileLoading,
                           pendingUpload>>

\* handleSubmit up to its await.
handleSubmit ==
    /\ effects' = <<>>
    /\ UNCHANGED <<loginVars, dashVars>>
    /\ IF Len(missingRequired) > 0
       THEN /\ op' = "handleSubmit"
            /\ alertMsg' = MissingAlert(missingRequired)
            /\ sent' = <<>>
            /\ UNCHANGED formVars
       ELSE /\ pendingPredict < MaxPending
            /\ loading' = TRUE
            /\ result' = NoData
            /\ sent' = <<[url |-> "/predict", body |-> payloadOf(formData),
                           file |-> ""]>>
            /\ pendingPredict' = pendingPredict + 1
            /\ op' = "handleSubmit"
            /\ alertMsg' = ""
            /\ UNCHANGED <<currentStep, formData, fileResult, fileLoading,
                           pendingUpload>>

\* handleSubmit resetting the form to its first step and initial record when
\* the request fails.
handleSubmitResumeResetting(r) ==
    LET failed == r.kind = "reject" \/ r.kind = "notjson" \/ ~r.ok IN
    /\ pendingPredict > 0
    /\ pendingPredict' = pendingPredict - 1
    /\ sent' = <<>>
    /\ effects' = <<>>
    /\ UNCHANGED <<loginVars, dashVars>>
    /\ loading' = FALSE
    /\ formData' = IF failed THEN initialFormData ELSE formData
    /\ currentStep' = IF failed THEN 1 ELSE currentStep
    /\ IF failed
       THEN /\ alertMsg' = "Failed to connect to server. Make sure the backend is running."
            /\ op' = "handleSubmit:catch"
            /\ UNCHANGED result
       ELSE /\ result' = r.data
            /\ alertMsg' = ""
            /\ op' = "handleSubmit:ok"
    /\ UNCHANGED <<fileResult, fileLoading, pendingUpload>>

\* handleSubmit starting a fresh record once the prediction has arrived.
handleSubmitResumeDiscarding(r) ==
    LET failed == r.kind = "reject" \/ r.kind = "notjson"
                  \/ (~r.ok /\ r.data.isNull) IN
    /\ pendingPredict > 0
    /\ pendingPredict' = pendingPredict - 1
    /\ sent' = <<>>
    /\ effects' = <<>>
    /\ UNCHANGED <<loginVars, dashVars>>
    /\ loading' = FALSE
    /\ IF failed
       THEN /\ alertMsg' = "Failed to connect to server. Make sure the backend is running."
            /\ op' = "handleSubmit:catch"
            /\ UNCHANGED <<result, formData, currentStep>>
       ELSE IF ~r.ok
       THEN /\ alertMsg' = IF r.data.error # "" THEN r.data.error
                           ELSE "Server returned an error"
            /\ op' = "handleSubmit:notok"
            /\ UNCHANGED <<result, formData, currentStep>>
       ELSE /\ result' = r.data
            /\ alertMsg' = ""
            /\ op' = "handleSubmit:ok"
            /\ formData' = initialFormData
            /\ currentStep' = 1
    /\ UNCHANGED <<fileResult, fileLoading, pendingUpload>>

\* handleSubmit from the answer of fetch to its end (finally included).
handleSubmitResume(r) ==
    /\ pendingPredict > 0
    /\ pendingPredict' = pendingPredict - 1
    /\ sent' = <<>>
    /\ effects' = <<>>
    /\ UNCHANGED <<loginVars, dashVars>>
    /\ loading' = FALSE
    /\ IF r.kind = "reject" \/ r.kind = "notjson"
          \/ (~r.ok /\ r.data.isNull)
       THEN \* catch: fetch rejected, res.json() threw, or data.error threw
            /\ alertMsg' = "Failed to connect to server. Make sure the backend is running."
            /\ op' = "handleSubmit:catch"
            /\ UNCHANGED result
       ELSE IF ~r.ok
       THEN /\ alertMsg' = IF r.data.error # "" THEN r.data.error
                           ELSE "Server returned an error"
            /\ op' = "handleSubmit:notok"
            /\ UNCHANGED result
       ELSE /\ result' = r.data
            /\ alertMsg' = ""
            /\ op' = "handleSubmit:ok"
    /\ UNCHANGED <<currentStep, formData, fileResult, fileLoading, pendingUpload>>

\* The body of a /predict-file answer to the upload of file: the server
\* names the file it scored ({results, model, filename}).
UploadData(d, file) ==
    [isNull |-> d.isNull, error |-> d.error, id |-> d.id,
     filename |-> IF d.isNull THEN "" ELSE file]

NoFileData == UploadData(NoData, "")

\* handleFileUpload keeping the displayed batch result while the new request
\* is in flight.
handleFileUploadKeepingResult(file) ==
    /\ Len(pendingUpload) < MaxInFlight
    /\ fileLoading' = TRUE
    /\ sent' = <<[url |-> "/predict-file", body |-> [f \in {} |-> JNull],
                   file |-> file]>>
    /\ pendingUpload' = Append(pendingUpload,
                               [file |-> file, overtaken |-> FALSE])
    /\ op' = "handleFileUpload"
    /\ alertMsg' = ""
    /\ effects' = <<>>
    /\ UNCHANGED <<loginVars, dashVars>>
    /\ UNCHANGED <<currentStep, formData, result, loading, pendingPredict,
                   fileResult>>

\* handleFileUpload up to its await.
handleFileUpload(file) ==
    /\ Len(pendingUpload) < MaxInFlight
    /\ fileLoading' = TRUE
    /\ fileResult' = NoFileData
    /\ sent' = <<[url |-> "/predict-file", body |-> [f \in {} |-> JNull],
                   file |-> file]>>
    /\ pendingUpload' = Append(pendingUpload,
                               [file |-> file, overtaken |-> FALSE])
    /\ op' = "handleFileUpload"
    /\ alertMsg' = ""
    /\ effects' = <<>>
    /\ UNCHANGED <<loginVars, dashVars>>
    /\ UNCHANGED <<currentStep, formData, result, loading, pendingPredict>>

\* The suspended calls once the i-th has resumed: the older ones, still
\* suspended, have been overtaken.
RemoveAt(seq, i) ==
    [j \in 1..(Len(seq) - 1) |->
        IF j < i THEN [seq[j] EXCEPT !.overtaken = TRUE] ELSE seq[j + 1]]

\* handleFileUpload dropping the answer to a call that a later call has
\* overtaken.
handleFileUploadResumeLatestOnly(i, r) ==
    /\ i \in 1..Len(pendingUpload)
    /\ pendingUpload' = RemoveAt(pendingUpload, i)
    /\ sent' = <<>>
    /\ effects' = <<>>
    /\ UNCHANGED <<loginVars, dashVars>>
    /\ fileLoading' = FALSE
    /\ IF r.kind = "reject" \/ r.kind = "notjson"
          \/ (~r.ok /\ r.data.isNull)
       THEN /\ alertMsg' = "Unable to upload file. Check console."
            /\ op' = "handleFileUpload:catch"
            /\ UNCHANGED fileResult
       ELSE IF ~r.ok
       THEN /\ alertMsg' = IF r.data.error # "" THEN r.data.error
                           ELSE "Upload failed"
            /\ op' = "handleFileUpload:notok"
            /\ UNCHANGED fileResult
       ELSE /\ fileResult' = IF pendingUpload[i].overtaken THEN fileResult
                            ELSE UploadData(r.data, pendingUpload[i].file)
            /\ alertMsg' = ""
            /\ op' = "handleFileUpload:ok"
    /\ UNCHANGED <<currentStep, formData, result, loading, pendingPredict>>

\* handleFileUpload from the answer of fetch to its end (finally included),
\* for the i-th suspended call: answers arrive in any order.
handleFileUploadResume(i, r) ==
    /\ i \in 1..Len(pendingUpload)
    /\ pendingUpload' = RemoveAt(pendingUpload, i)
    /\ sent' = <<>>
    /\ effects' = <<>>
    /\ UNCHANGED <<loginVars, dashVars>>
    /\ fileLoading' = FALSE
    /\ IF r.kind = "reject" \/ r.kind = "notjson"
          \/ (~r.ok /\ r.data.isNull)
       THEN /\ alertMsg' = "Unable to upload file. Check console."
            /\ op' = "handleFileUpload:catch"
            /\ UNCHANGED fileResult
       ELSE IF ~r.ok
       THEN /\ alertMsg' = IF r.data.error # "" THEN r.data.error
                           ELSE "Upload failed"
            /\ op' = "handleFileUpload:notok"
            /\ UNCHANGED fileResult
       ELSE /\ fileResult' = UploadData(r.data, pendingUpload[i].file)
            /\ alertMsg' = ""
            /\ op' = "handleFileUpload:ok"
    /\ UNCHANGED <<currentStep, formData, result, loading, pendingPredict>>

(***************************************************************************)
(* DoctorLogin.  The file holds two components of that name: the first     *)
(* (lines 29-225) posts to /auth/login-file and accepts a token-bearing or *)
(* a flag-bearing answer, the second (lines 257-455) posts to /auth/login  *)
(* and accepts only a token-bearing answer.  variant tells which is        *)
(* mounted.  The submit button is disabled while loading, so handleSubmit  *)
(* runs only while no login request is in flight.                          *)
(***************************************************************************)
LoginPath == "/doctorlogin"
DashboardPath == "/doctor/dashboard"

NoItem == "(null)"
StorageKeys == {"authToken", "authUser", "authRemember"}
EmptyStorage == [key \in StorageKeys |-> NoItem]

\* What the user may type.
EmailInputs == {"", " ", "dr_raj"}
PasswordInputs == {"", "mySecretPass123"}

\* String.prototype.trim on the inputs above.
Trim(str) == IF str = " " THEN "" ELSE str

\* The body of a login answer: each field is "" when absent (or empty, which
\* the code cannot tell from absent: it only tests truthiness), okFlag is
\* FALSE when absent.  isNull: the JSON text null.
EmptyBody ==
    [isNull |-> FALSE, token |-> "", user |-> "", okFlag |-> FALSE,
     username |-> "", next |-> "", error |-> "", message |-> ""]

NullBody == [EmptyBody EXCEPT !.isNull = TRUE]

\* Token-bearing bodies (with or without user, flag and next), flag-bearing
\* bodies (ok, username or both, with or without next), bodies of another
\* shape, and error bodies (with or without a token).
LoginBodies ==
    [isNull : {FALSE}, token : {"tok"}, user : {"", "u1"}, okFlag : BOOLEAN,
     username : {""}, next : {"", "/doctor/records"}, error : {""},
     message : {""}]
    \cup [isNull : {FALSE}, token : {""}, user : {""}, okFlag : BOOLEAN,
          username : {"", "dr_raj"}, next : {"", "/doctor/records"},
          error : {""}, message : {""}]
    \cup [isNull : {FALSE}, token : {""}, user : {"", "u1"}, okFlag : {FALSE},
          username : {""}, next : {""}, error : {""}, message : {""}]
    \cup [isNull : {FALSE}, token : {"", "tok"}, user : {""}, okFlag : {FALSE},
          username : {""}, next : {""}, error : {"", "Bad credentials"},
          message : {"", "Account locked"}]

LoginResponses ==
    [kind : {"reject"}, ok : {FALSE}, data : {EmptyBody}]
    \cup [kind : {"notjson"}, ok : BOOLEAN, data : {EmptyBody}]
    \cup [kind : {"json"}, ok : BOOLEAN, data : LoginBodies \cup {NullBody}]

\* JSON.stringify of the objects the component stores.
StringifyUser(u) == "{\"id\":\"" \o u \o "\"}"
StringifyUsername(name) == "{\"username\":\"" \o name \o "\"}"

SetItem(store, key, value) == [e |-> "setItem", store |-> store, key |-> key,
                               value |-> value]
Navigate(to) == [e |-> "navigate", store |-> "", key |-> "", value |-> to]

\* The storage after the writes of a step.
RECURSIVE ApplyWrites(_, _, _)
ApplyWrites(storage, name, effs) ==
    IF Len(effs) = 0 THEN storage
    ELSE LET h == effs[1]
             st == IF h.e = "setItem" /\ h.store = name
                   THEN [storage EXCEPT ![h.key] = h.value] ELSE storage
         IN  ApplyWrites(st, name, Tail(effs))

\* The path after the navigations of a step.
RECURSIVE ApplyNavigations(_, _)
ApplyNavigations(path, effs) ==
    IF Len(effs) = 0 THEN path
    ELSE ApplyNavigations(IF effs[1].e = "navigate" THEN effs[1].value ELSE path,
                          Tail(effs))

\* validate without the password test.
validateEmailOnly ==
    IF email = "" THEN "Please enter email or username." ELSE ""

validate ==
    IF email = "" THEN "Please enter email or username."
    ELSE IF password = "" THEN "Please enter password."
    ELSE ""

LoginMounted == location = LoginPath

LoginFrame ==
    /\ alertMsg' = ""
    /\ UNCHANGED <<formVars, dashVars, variant>>

setEmail(v) ==
    /\ LoginMounted
    /\ email' = v
    /\ op' = "setEmail"
    /\ sent' = <<>>
    /\ effects' = <<>>
    /\ LoginFrame
    /\ UNCHANGED <<password, remember, loginLoading, error, localStorage,
                   sessionStorage, location, pendingLogin>>

setPassword(v) ==
    /\ LoginMounted
    /\ password' = v
    /\ op' = "setPassword"
    /\ sent' = <<>>
    /\ effects' = <<>>
    /\ LoginFrame
    /\ UNCHANGED <<email, remember, loginLoading, error, localStorage,
                   sessionStorage, location, pendingLogin>>

setRemember(b) ==
    /\ LoginMounted
    /\ remember' = b
    /\ op' = "setRemember"
    /\ sent' = <<>>
    /\ effects' = <<>>
    /\ LoginFrame
    /\ UNCHANGED <<email, password, loginLoading, error, localStorage,
                   sessionStorage, location, pendingLogin>>

\* The Demo button, disabled while loading.
fillDemo ==
    /\ LoginMounted
    /\ ~loginLoading
    /\ email' = IF variant = 1 THEN "dr_raj" ELSE "dr_demo"
    /\ password' = IF variant = 1 THEN "mySecretPass123" ELSE "demo1234"
    /\ error' = ""
    /\ op' = "fillDemo"
    /\ sent' = <<>>
    /\ effects' = <<>>
    /\ LoginFrame
    /\ UNCHANGED <<remember, loginLoading, localStorage, sessionStorage,
                   location, pendingLogin>>

\* The request each component posts.
LoginRequest ==
    IF variant = 1
    THEN [url |-> "/auth/login-file", name |-> "username",
          id |-> Trim(email), password |-> password]
    ELSE [url |-> "/auth/login", name |-> "email",
          id |-> Trim(email), password |-> password]

\* handleSubmit up to its await (both components).
loginHandleSubmit ==
    /\ LoginMounted
    /\ ~loginLoading
    /\ effects' = <<>>
    /\ LoginFrame
    /\ UNCHANGED <<email, password, remember, localStorage, sessionStorage,
                   location>>
    /\ IF validate # ""
       THEN /\ error' = validate
            /\ op' = "login:invalid"
            /\ sent' = <<>>
            /\ UNCHANGED <<loginLoading, pendingLogin>>
       ELSE /\ error' = ""
            /\ loginLoading' = TRUE
            /\ sent' = <<LoginRequest>>
            /\ pendingLogin' = Append(pendingLogin,
                                      [email |-> email, remember |-> remember])
            /\ op' = "login:sent"

\* res.json().catch(() => ({})): a body that is not JSON reads as {}.
LoginData(r) == IF r.kind = "notjson" THEN EmptyBody ELSE r.data

\* The first component's effects were it to ignore the server's next target.
LoginEffectsFixedTarget(data, call) ==
    IF data.token # ""
    THEN <<SetItem(IF call.remember THEN "local" ELSE "session", "authToken",
                   data.token)>>
         \o (IF data.user # ""
             THEN <<SetItem("local", "authUser", StringifyUser(data.user))>>
             ELSE <<>>)
         \o <<Navigate(DashboardPath)>>
    ELSE IF data.okFlag \/ data.username # ""
    THEN <<SetItem("local", "authUser",
                   StringifyUsername(IF data.username # "" THEN data.username
                                     ELSE Trim(call.email))),
           SetItem(IF call.remember THEN "local" ELSE "session", "authRemember",
                   "1"),
           Navigate(DashboardPath)>>
    ELSE <<>>

\* The first component's effects were it to navigate before it writes.
LoginEffectsNavigateFirst(data, call) ==
    IF data.token # ""
    THEN <<Navigate(DashboardPath)>>
         \o <<SetItem(IF call.remember THEN "local" ELSE "session", "authToken",
                      data.token)>>
         \o (IF data.user # ""
             THEN <<SetItem("local", "authUser", StringifyUser(data.user))>>
             ELSE <<>>)
    ELSE IF data.okFlag \/ data.username # ""
    THEN <<Navigate(IF data.next # "" THEN data.next ELSE DashboardPath),
           SetItem("local", "authUser",
                   StringifyUsername(IF data.username # "" THEN data.username
                                     ELSE Trim(call.email))),
           SetItem(IF call.remember THEN "local" ELSE "session", "authRemember",
                   "1")>>
    ELSE <<>>

\* The first component's effects were the token branch to fall through into
\* the flag branch (no return after its navigate).
LoginEffectsFallThrough(data, call) ==
    (IF data.token # ""
     THEN <<SetItem(IF call.remember THEN "local" ELSE "session", "authToken",
                    data.token)>>
          \o (IF data.user # ""
              THEN <<SetItem("local", "authUser", StringifyUser(data.user))>>
              ELSE <<>>)
          \o <<Navigate(DashboardPath)>>
     ELSE <<>>)
    \o (IF data.okFlag \/ data.username # ""
        THEN <<SetItem("local", "authUser",
                       StringifyUsername(IF data.username # ""
                                         THEN data.username
                                         ELSE Trim(call.email))),
               SetItem(IF call.remember THEN "local" ELSE "session",
                       "authRemember", "1"),
               Navigate(IF data.next # "" THEN data.next ELSE DashboardPath)>>
        ELSE <<>>)

\* The storage writes and the navigation of the first component on a
\* success answer, in program order.
LoginEffects(data, call) ==
    IF data.token # ""
    THEN <<SetItem(IF call.remember THEN "local" ELSE "session", "authToken",
                   data.token)>>
         \o (IF data.user # ""
             THEN <<SetItem("local", "authUser", StringifyUser(data.user))>>
             ELSE <<>>)
         \o <<Navigate(DashboardPath)>>
    ELSE IF data.okFlag \/ data.username # ""
    THEN <<SetItem("local", "authUser",
                   StringifyUsername(IF data.username # "" THEN data.username
                                     ELSE Trim(call.email))),
           SetItem(IF call.remember THEN "local" ELSE "session", "authRemember",
                   "1"),
           Navigate(IF data.next # "" THEN data.next ELSE DashboardPath)>>
    ELSE <<>>

\* The same for the second component (a truthy token is required).
Login2Effects(data, call) ==
    IF data.token # ""
    THEN <<SetItem(IF call.remember THEN "local" ELSE "session", "authToken",
                   data.token),
           SetItem("local", "authUser",
                   IF data.user # "" THEN StringifyUser(data.user) ELSE "{}"),
           Navigate(DashboardPath)>>
    ELSE <<>>

\* The first component's error were it to look at the body before res.ok.
LoginErrorBodyFirst(r) ==
    LET data == LoginData(r) IN
    IF r.kind = "reject" \/ data.isNull
    THEN "Network error while logging in. Is the backend running?"
    ELSE IF data.token # "" \/ data.okFlag \/ data.username # "" THEN ""
    ELSE IF ~r.ok
    THEN (IF data.error # "" THEN data.error
          ELSE IF data.message # "" THEN data.message
          ELSE "Login failed. Check credentials.")
    ELSE "Login succeeded but response shape unexpected. Check backend."

\* The first component's error were it to accept a success answer of any
\* shape.
LoginErrorAnyShape(r) ==
    LET data == LoginData(r) IN
    IF r.kind = "reject" \/ data.isNull
    THEN "Network error while logging in. Is the backend running?"
    ELSE IF ~r.ok
    THEN (IF data.error # "" THEN data.error
          ELSE IF data.message # "" THEN data.message
          ELSE "Login failed. Check credentials.")
    ELSE ""

\* The error the first component sets, "" when it sets none.
LoginError(r) ==
    LET data == LoginData(r) IN
    IF r.kind = "reject" \/ data.isNull
    THEN "Network error while logging in. Is the backend running?"
    ELSE IF ~r.ok
    THEN (IF data.error # "" THEN data.error
          ELSE IF data.message # "" THEN data.message
          ELSE "Login failed. Check credentials.")
    ELSE IF data.token # "" \/ data.okFlag \/ data.username # "" THEN ""
    ELSE "Login succeeded but response shape unexpected. Check backend."

Login2Error(r) ==
    LET data == LoginData(r) IN
    IF r.kind = "reject" \/ data.isNull
    THEN "Network error while logging in. Is the backend running?"
    ELSE IF ~r.ok
    THEN (IF data.message # "" THEN data.message
          ELSE IF data.error # "" THEN data.error
          ELSE "Login failed. Check credentials.")
    ELSE IF data.token # "" THEN ""
    ELSE "Login succeeded but token missing. Check backend."

\* handleSubmit from the answer of fetch to its end (finally included).
loginHandleSubmitResume(r) ==
    LET err == IF variant = 1 THEN LoginError(r) ELSE Login2Error(r)
        call == Head(pendingLogin)
        effs == IF err # "" THEN <<>>
                ELSE IF variant = 1 THEN LoginEffects(LoginData(r), call)
                ELSE Login2Effects(LoginData(r), call)
    IN  /\ Len(pendingLogin) > 0
        /\ pendingLogin' = Tail(pendingLogin)
        /\ loginLoading' = FALSE
        /\ error' = IF err # "" THEN err ELSE error
        /\ effects' = effs
        /\ localStorage' = ApplyWrites(localStorage, "local", effs)
        /\ sessionStorage' = ApplyWrites(sessionStorage, "session", effs)
        /\ location' = ApplyNavigations(location, effs)
        /\ sent' = <<>>
        /\ op' = IF r.kind = "reject" \/ LoginData(r).isNull THEN "login:catch"
                 ELSE IF ~r.ok THEN "login:notok"
                 ELSE IF err # "" THEN "login:unexpected"
                 ELSE "login:ok"
        /\ LoginFrame
        /\ UNCHANGED <<email, password, remember>>

LoginInit ==
    /\ variant = 1
    /\ email = ""
    /\ password = ""
    /\ remember = TRUE
    /\ loginLoading = FALSE
    /\ error = ""
    /\ localStorage = EmptyStorage
    /\ sessionStorage = EmptyStorage
    /\ location = LoginPath
    /\ pendingLogin = <<>>

\* The cell at mount: nothing selected, no records.
InitialMemo == [deps |-> <<"", <<>>>>, value |-> ""]

DashInit ==
    /\ records = <<>>
    /\ dashLoading = FALSE
    /\ selectedId = ""
    /\ notesText = ""
    /\ saving = FALSE
    /\ message = ""
    /\ pendingFetch = <<>>
    /\ pendingSave = 0
    /\ memo = InitialMemo

(***************************************************************************)
(* DoctorDashboard.  Numbers with a fractional part are kept as integers:  *)
(* oldpeak in tenths (2.0 is 20) and probability in hundredths (0.8 is     *)
(* 80).  The em dash of the four sentences is written " - ".               *)
(***************************************************************************)
CholSentence == "High cholesterol - suggest lipid profile & diet change."
BpSentence == "High BP - consider antihypertensive review."
StSentence == "Significant ST depression - cardiology consultation recommended."
ProbSentence == "High model probability - prioritize follow-up soon."

\* A strict comparison: it would leave the boundary values out.
GreaterStrict(a, t) == LET x == Number(a) IN x.k = "num" /\ x.n > t

\* a >= t for a number t: a is converted with ToNumber, NaN compares false.
GreaterEq(a, t) == LET x == Number(a) IN x.k = "num" /\ x.n >= t

\* A stored record: _id, input (absent when hasInput is FALSE) and
\* probability.
Rec(id, chol, trestbps, oldpeak, probability) ==
    [id |-> id, hasInput |-> TRUE, chol |-> chol, trestbps |-> trestbps,
     oldpeak |-> oldpeak, probability |-> probability]

\* rec.input || {}
InputOf(rec) ==
    IF rec.hasInput
    THEN [chol |-> rec.chol, trestbps |-> rec.trestbps, oldpeak |-> rec.oldpeak]
    ELSE [chol |-> JUndef, trestbps |-> JUndef, oldpeak |-> JUndef]

\* The body of the useMemo once rec was found.
SuggestionFor(rec) ==
    LET inp == InputOf(rec)
        sug == (IF GreaterEq(inp.chol, 240) THEN <<CholSentence>> ELSE <<>>)
            \o (IF GreaterEq(inp.trestbps, 140) THEN <<BpSentence>> ELSE <<>>)
            \o (IF GreaterEq(inp.oldpeak, 20) THEN <<StSentence>> ELSE <<>>)
            \o (IF GreaterEq(rec.probability, 80) THEN <<ProbSentence>> ELSE <<>>)
    IN  Join(SubSeq(sug, 1, IF Len(sug) < 4 THEN Len(sug) ELSE 4), " ")

aiSuggestionOf(sel, recs) ==
    IF sel = "" THEN ""
    ELSE LET found == SelectSeq(recs, LAMBDA x : x.id = sel)
         IN  IF Len(found) = 0 THEN "" ELSE SuggestionFor(found[1])

\* useMemo recomputing on a change of the selection only.
useMemoSelectionOnly(m, sel, recs) ==
    IF sel = m.deps[1] THEN m
    ELSE [deps |-> <<sel, recs>>, value |-> aiSuggestionOf(sel, recs)]

\* useMemo(..., [selectedId, records]) at the render that follows a step:
\* the cell is recomputed when a dependency changed.  React compares the
\* list by identity; a list of equal content gives the same value.
useMemo(m, sel, recs) ==
    IF <<sel, recs>> = m.deps THEN m
    ELSE [deps |-> <<sel, recs>>, value |-> aiSuggestionOf(sel, recs)]

\* The advisory the latest render displays.
aiSuggestion == memo.value

\* The records the server may hold.
RecOnlyChol == Rec("a", JNum(250), JNum(130), JNum(10), JNum(50))
RecAllFour == Rec("b", JNum(240), JNum(140), JNum(20), JNum(80))
RecNone == Rec("c", JNum(239), JNum(139), JNum(19), JNum(79))
RecNoInput ==
    [id |-> "d", hasInput |-> FALSE, chol |-> JUndef, trestbps |-> JUndef,
     oldpeak |-> JUndef, probability |-> JNull]
RecPartial == Rec("e", JNull, JNum(150), JUndef, JNum(90))
\* Record "a" after the server re-scored it.
RecChanged == Rec("a", JNum(300), JNum(160), JNum(35), JNum(95))

\* The lists /records may answer with.
RecordLists ==
    {<<>>, <<RecOnlyChol, RecAllFour, RecNone>>,
     <<RecChanged, RecNoInput, RecPartial>>}

\* Answers to GET /records: hasRecords is FALSE for a body without a
\* records field.
FetchResponses ==
    [kind : {"reject"}, ok : {FALSE}, isNull : {FALSE}, hasRecords : {FALSE},
     list : {<<>>}]
    \cup [kind : {"notjson"}, ok : BOOLEAN, isNull : {FALSE},
          hasRecords : {FALSE}, list : {<<>>}]
    \cup [kind : {"json"}, ok : BOOLEAN, isNull : {TRUE}, hasRecords : {FALSE},
          list : {<<>>}]
    \cup [kind : {"json"}, ok : BOOLEAN, isNull : {FALSE}, hasRecords : {FALSE},
          list : {<<>>}]
    \cup [kind : {"json"}, ok : BOOLEAN, isNull : {FALSE}, hasRecords : {TRUE},
          list : RecordLists]

\* Answers to POST /records/<id>/notes; error is the error field of a JSON
\* body, "" when it has none.
SaveResponses ==
    [kind : {"reject"}, ok : {FALSE}, error : {""}]
    \cup [kind : {"notjson"}, ok : BOOLEAN, error : {""}]
    \cup [kind : {"json"}, ok : BOOLEAN, error : {"", "Record not found"}]

\* What the doctor may type in the Record ID and Doctor Notes inputs.
IdInputs == {"", "a", "zzz"}
NoteInputs == {"", " ", "Follow up in 2 weeks."}

\* String.prototype.trim on the notes the model reaches: a typed note, or a
\* typed note followed by a line break and a suggestion.
TrimNote(str) == IF str = " " THEN "" ELSE str

DashFrame ==
    /\ alertMsg' = ""
    /\ effects' = <<>>
    /\ UNCHANGED <<formVars, loginVars>>

\* fetchRecords up to its await (the Refresh button; the mount effect is in
\* the initial state).
fetchRecords ==
    /\ Len(pendingFetch) < MaxInFlight
    /\ dashLoading' = TRUE
    /\ pendingFetch' = Append(pendingFetch, [overtaken |-> FALSE])
    /\ sent' = <<[url |-> "/records", id |-> "", note |-> "",
                   suggested_by_ai |-> ""]>>
    /\ op' = "fetchRecords"
    /\ DashFrame
    /\ UNCHANGED <<records, selectedId, notesText, saving, message, pendingSave>>
    /\ memo' = useMemo(memo, selectedId', records')

\* fetchRecords without its finally block: a failed fetch would leave the
\* loading flag set.
fetchRecordsResumeNoFinally(i, r) ==
    /\ i \in 1..Len(pendingFetch)
    /\ pendingFetch' = RemoveAt(pendingFetch, i)
    /\ IF r.kind = "reject" \/ r.kind = "notjson" \/ (r.ok /\ r.isNull)
       THEN /\ op' = "fetchRecords:catch"
            /\ UNCHANGED <<records, dashLoading>>
       ELSE IF r.ok
       THEN /\ records' = IF r.hasRecords THEN r.list ELSE <<>>
            /\ dashLoading' = FALSE
            /\ op' = "fetchRecords:ok"
       ELSE /\ op' = "fetchRecords:notok"
            /\ dashLoading' = FALSE
            /\ UNCHANGED records
    /\ sent' = <<>>
    /\ DashFrame
    /\ UNCHANGED <<selectedId, notesText, saving, message, pendingSave>>
    /\ memo' = useMemo(memo, selectedId', records')

\* fetchRecords from the answer of fetch to its end, for the i-th suspended
\* call: answers arrive in any order.
fetchRecordsResume(i, r) ==
    /\ i \in 1..Len(pendingFetch)
    /\ pendingFetch' = RemoveAt(pendingFetch, i)
    /\ dashLoading' = FALSE
    /\ IF r.kind = "reject" \/ r.kind = "notjson" \/ (r.ok /\ r.isNull)
       THEN /\ op' = "fetchRecords:catch"
            /\ UNCHANGED records
       ELSE IF r.ok
       THEN /\ records' = IF r.hasRecords THEN r.list ELSE <<>>
            /\ op' = "fetchRecords:ok"
       ELSE /\ op' = "fetchRecords:notok"
            /\ UNCHANGED records
    /\ sent' = <<>>
    /\ DashFrame
    /\ UNCHANGED <<selectedId, notesText, saving, message, pendingSave>>
    /\ memo' = useMemo(memo, selectedId', records')

\* A click on the i-th row of the table, which is rendered while not loading.
onRowClick(i) ==
    /\ ~dashLoading
    /\ i \in 1..Len(records)
    /\ selectedId' = records[i].id
    /\ notesText' = ""
    /\ message' = ""
    /\ op' = "onRowClick"
    /\ sent' = <<>>
    /\ DashFrame
    /\ UNCHANGED <<records, dashLoading, saving, pendingFetch, pendingSave>>
    /\ memo' = useMemo(memo, selectedId', records')

\* The Record ID input.
setSelectedId(v) ==
    /\ selectedId' = v
    /\ op' = "setSelectedId"
    /\ sent' = <<>>
    /\ DashFrame
    /\ UNCHANGED <<records, dashLoading, notesText, saving, message,
                   pendingFetch, pendingSave>>
    /\ memo' = useMemo(memo, selectedId', records')

\* The Doctor Notes textarea.
setNotesText(v) ==
    /\ notesText' = v
    /\ op' = "setNotesText"
    /\ sent' = <<>>
    /\ DashFrame
    /\ UNCHANGED <<records, dashLoading, selectedId, saving, message,
                   pendingFetch, pendingSave>>
    /\ memo' = useMemo(memo, selectedId', records')

\* The Insert Suggestion button, disabled while there is no suggestion.  The
\* model inserts into a typed note only, which bounds the note's length.
insertSuggestion ==
    /\ aiSuggestion # ""
    /\ notesText \in NoteInputs
    /\ notesText' = notesText \o "\n" \o aiSuggestion
    /\ op' = "insertSuggestion"
    /\ sent' = <<>>
    /\ DashFrame
    /\ UNCHANGED <<records, dashLoading, selectedId, saving, message,
                   pendingFetch, pendingSave>>
    /\ memo' = useMemo(memo, selectedId', records')

\* saveNote behind a button that stays enabled while saving.
saveNoteAlwaysEnabled ==
    /\ DashFrame
    /\ UNCHANGED <<records, dashLoading, selectedId, notesText, pendingFetch>>
    /\ IF selectedId = ""
       THEN /\ message' = "Select a record first."
            /\ op' = "saveNote:noid"
            /\ sent' = <<>>
            /\ UNCHANGED <<saving, pendingSave>>
       ELSE IF TrimNote(notesText) = ""
       THEN /\ message' = "Write a note first."
            /\ op' = "saveNote:nonote"
            /\ sent' = <<>>
            /\ UNCHANGED <<saving, pendingSave>>
       ELSE /\ saving' = TRUE
            /\ pendingSave' = pendingSave + 1
            /\ sent' = <<[url |-> "/records/<id>/notes", id |-> selectedId,
                           note |-> notesText,
                           suggested_by_ai |-> aiSuggestion]>>
            /\ op' = "saveNote:sent"
            /\ UNCHANGED message
    /\ memo' = useMemo(memo, selectedId', records')

\* saveNote without its test of the note.
saveNoteWithoutNoteTest ==
    /\ ~saving
    /\ DashFrame
    /\ UNCHANGED <<records, dashLoading, selectedId, notesText, pendingFetch>>
    /\ IF selectedId = ""
       THEN /\ message' = "Select a record first."
            /\ op' = "saveNote:noid"
            /\ sent' = <<>>
            /\ UNCHANGED <<saving, pendingSave>>
       ELSE /\ saving' = TRUE
            /\ pendingSave' = pendingSave + 1
            /\ sent' = <<[url |-> "/records/<id>/notes", id |-> selectedId,
                           note |-> notesText,
                           suggested_by_ai |-> aiSuggestion]>>
            /\ op' = "saveNote:sent"
            /\ UNCHANGED message
    /\ memo' = useMemo(memo, selectedId', records')

\* saveNote up to its await (the Save Note button, disabled while saving).
saveNote ==
    /\ ~saving
    /\ DashFrame
    /\ UNCHANGED <<records, dashLoading, selectedId, notesText, pendingFetch>>
    /\ IF selectedId = ""
       THEN /\ message' = "Select a record first."
            /\ op' = "saveNote:noid"
            /\ sent' = <<>>
            /\ UNCHANGED <<saving, pendingSave>>
       ELSE IF TrimNote(notesText) = ""
       THEN /\ message' = "Write a note first."
            /\ op' = "saveNote:nonote"
            /\ sent' = <<>>
            /\ UNCHANGED <<saving, pendingSave>>
       ELSE /\ saving' = TRUE
            /\ pendingSave' = pendingSave + 1
            /\ sent' = <<[url |-> "/records/<id>/notes", id |-> selectedId,
                           note |-> notesText,
                           suggested_by_ai |-> aiSuggestion]>>
            /\ op' = "saveNote:sent"
            /\ UNCHANGED message
    /\ memo' = useMemo(memo, selectedId', records')

\* saveNote deselecting the record once the note is saved.
saveNoteResumeDeselecting(r) ==
    /\ pendingSave > 0
    /\ pendingSave' = pendingSave - 1
    /\ saving' = FALSE
    /\ IF r.kind = "reject" \/ r.kind = "notjson"
       THEN /\ message' = "Network error while saving note."
            /\ op' = "saveNote:catch"
            /\ UNCHANGED selectedId
       ELSE IF ~r.ok
       THEN /\ message' = "Failed to save note"
            /\ op' = "saveNote:notok"
            /\ UNCHANGED selectedId
       ELSE /\ message' = "Note saved successfully"
            /\ op' = "saveNote:ok"
            /\ selectedId' = ""
    /\ sent' = <<>>
    /\ DashFrame
    /\ UNCHANGED <<records, dashLoading, notesText, pendingFetch>>
    /\ memo' = useMemo(memo, selectedId', records')

\* saveNote from the answer of fetch to its end.
saveNoteResume(r) ==
    /\ pendingSave > 0
    /\ pendingSave' = pendingSave - 1
    /\ saving' = FALSE
    /\ IF r.kind = "reject" \/ r.kind = "notjson"
       THEN /\ message' = "Network error while saving note."
            /\ op' = "saveNote:catch"
       ELSE IF ~r.ok
       THEN /\ message' = "Failed to save note"
            /\ op' = "saveNote:notok"
       ELSE /\ message' = "Note saved successfully"
            /\ op' = "saveNote:ok"
    /\ sent' = <<>>
    /\ DashFrame
    /\ UNCHANGED <<records, dashLoading, selectedId, notesText, pendingFetch>>
    /\ memo' = useMemo(memo, selectedId', records')

FormInit ==
    /\ currentStep = 1
    /\ formData = initialFormData
    /\ result = NoData
    /\ loading = FALSE
    /\ fileResult = NoFileData
    /\ fileLoading = FALSE
    /\ pendingPredict = 0
    /\ pendingUpload = <<>>

OutInit ==
    /\ op = "mount"
    /\ alertMsg = ""
    /\ sent = <<>>
    /\ effects = <<>>

\* PatientForm mounted on the patient home page.
Init == FormInit /\ LoginInit /\ DashInit /\ OutInit

Next ==
    \/ \E f \in StepFields(currentStep), v \in InputStrings :
            handleInputChange(f, v)
    \/ nextStep
    \/ prevStep
    \/ handleSubmit
    \/ \E r \in Responses : handleSubmitResume(r)

Spec == Init /\ [][Next]_vars

(***************************************************************************)
(* The form's network interactions: single submission and file upload      *)
(* from the record before and after the questions were answered.           *)
(***************************************************************************)
InitIO ==
    /\ currentStep \in {1, totalSteps}
    /\ formData \in {AnsweredUpTo(0), AnsweredUpTo(Len(requiredFields)),
                      AnsweredUpTo(Len(FillOrder))}
    /\ result = NoData
    /\ loading = FALSE
    /\ fileResult = NoFileData
    /\ fileLoading = FALSE
    /\ pendingPredict = 0
    /\ pendingUpload = <<>>
    /\ LoginInit /\ DashInit /\ OutInit

NextIO ==
    \/ handleSubmit
    \/ \E r \in Responses : handleSubmitResume(r)
    \/ \E file \in Files : handleFileUpload(file)
    \/ \E i \in 1..MaxInFlight, r \in Responses :
            handleFileUploadResume(i, r)

SpecIO == InitIO /\ [][NextIO]_vars

(***************************************************************************)
(* DoctorLogin mounted at /doctorlogin, either component.                  *)
(***************************************************************************)
InitLogin ==
    /\ FormInit /\ DashInit /\ OutInit
    /\ variant \in {1, 2}
    /\ email = ""
    /\ password = ""
    /\ remember = TRUE
    /\ loginLoading = FALSE
    /\ error = ""
    /\ localStorage = EmptyStorage
    /\ sessionStorage = EmptyStorage
    /\ location = LoginPath
    /\ pendingLogin = <<>>

NextLogin ==
    \/ \E v \in EmailInputs : setEmail(v)
    \/ \E v \in PasswordInputs : setPassword(v)
    \/ \E b \in BOOLEAN : setRemember(b)
    \/ fillDemo
    \/ loginHandleSubmit
    \/ \E r \in LoginResponses : loginHandleSubmitResume(r)

SpecLogin == InitLogin /\ [][NextLogin]_vars

(***************************************************************************)
(* DoctorDashboard after mount: the mount effect has called fetchRecords.  *)
(***************************************************************************)
InitDash ==
    /\ FormInit /\ LoginInit
    /\ records = <<>>
    /\ dashLoading = TRUE
    /\ selectedId = ""
    /\ notesText = ""
    /\ saving = FALSE
    /\ message = ""
    /\ pendingFetch = <<[overtaken |-> FALSE]>>
    /\ pendingSave = 0
    /\ memo = InitialMemo
    /\ op = "mount"
    /\ alertMsg = ""
    /\ sent = <<[url |-> "/records", id |-> "", note |-> "",
                 suggested_by_ai |-> ""]>>
    /\ effects = <<>>

NextDash ==
    \/ fetchRecords
    \/ \E i \in 1..MaxInFlight, r \in FetchResponses : fetchRecordsResume(i, r)
    \/ \E i \in 1..Len(records) : onRowClick(i)
    \/ \E v \in IdInputs : setSelectedId(v)
    \/ \E v \in NoteInputs : setNotesText(v)
    \/ insertSuggestion
    \/ saveNote
    \/ \E r \in SaveResponses : saveNoteResume(r)

SpecDash == InitDash /\ [][NextDash]_vars

(***************************************************************************)
(* Every pattern of set and unset required fields: the form with each      *)
(* required field either untouched or answered 0, and the handler that     *)
(* reads the record.                                                       *)
(***************************************************************************)
InitRecords ==
    /\ currentStep = totalSteps
    /\ formData \in {fd \in [FieldNames -> {JStr(""), JNum(0)}] :
                        fd["target"] = JStr("")}
    /\ result = NoData
    /\ loading = FALSE
    /\ fileResult = NoFileData
    /\ fileLoading = FALSE
    /\ pendingPredict = 0
    /\ pendingUpload = <<>>
    /\ LoginInit /\ DashInit /\ OutInit

NextRecords ==
    \/ handleSubmit
    \/ \E r \in Responses : handleSubmitResume(r)

SpecRecords == InitRecords /\ [][NextRecords]_vars

(***************************************************************************)
(* The three pages as the user drives them: one page is mounted, chosen by  *)
(* the route, and a button acts only while it is rendered and enabled.     *)
(* The form page starts at an empty or a complete record; the login page   *)
(* is not followed into the page it navigates to.                          *)
(***************************************************************************)
FormPath == "/"

\* A Get Prediction button rendered at every step.
clickGetPredictionAnyStep ==
    /\ ~loading
    /\ Len(missingRequired) = 0
    /\ handleSubmit

\* The Get Prediction button: rendered at the last step, disabled while
\* loading or while a required field is missing.
clickGetPrediction ==
    /\ currentStep = totalSteps
    /\ ~loading
    /\ Len(missingRequired) = 0
    /\ handleSubmit

FormMounted == location = FormPath

DashboardMounted == location = DashboardPath /\ op # "login:ok"

InitUI ==
    /\ location \in {FormPath, LoginPath, DashboardPath}
    /\ currentStep \in (IF location = FormPath THEN {1, totalSteps} ELSE {1})
    /\ formData \in (IF location = FormPath
                     THEN {AnsweredUpTo(0), AnsweredUpTo(Len(requiredFields)),
                           AnsweredUpTo(Len(FillOrder))}
                     ELSE {initialFormData})
    /\ result = NoData
    /\ loading = FALSE
    /\ fileResult = NoFileData
    /\ fileLoading = FALSE
    /\ pendingPredict = 0
    /\ pendingUpload = <<>>
    /\ variant \in (IF location = LoginPath THEN {1, 2} ELSE {1})
    /\ email = ""
    /\ password = ""
    /\ remember = TRUE
    /\ loginLoading = FALSE
    /\ error = ""
    /\ localStorage = EmptyStorage
    /\ sessionStorage = EmptyStorage
    /\ pendingLogin = <<>>
    /\ records = <<>>
    /\ dashLoading = (location = DashboardPath)
    /\ selectedId = ""
    /\ notesText = ""
    /\ saving = FALSE
    /\ message = ""
    /\ pendingFetch = IF location = DashboardPath
                      THEN <<[overtaken |-> FALSE]>> ELSE <<>>
    /\ pendingSave = 0
    /\ memo = InitialMemo
    /\ op = "mount"
    /\ alertMsg = ""
    /\ sent = IF location = DashboardPath
              THEN <<[url |-> "/records", id |-> "", note |-> "",
                      suggested_by_ai |-> ""]>>
              ELSE <<>>
    /\ effects = <<>>

NextUI ==
    \/ FormMounted /\ clickGetPrediction
    \/ FormMounted /\ \E r \in Responses : handleSubmitResume(r)
    \/ FormMounted /\ \E file \in Files : handleFileUpload(file)
    \/ FormMounted /\ \E i \in 1..MaxInFlight, r \in Responses :
                          handleFileUploadResume(i, r)
    \/ LoginMounted /\ NextLogin
    \/ DashboardMounted /\ NextDash

SpecUI == InitUI /\ [][NextUI]_vars

(***************************************************************************)
(* The life of the requests: the mounted page issues its requests and      *)
(* each is eventually answered or fails (the promise a handler awaits      *)
(* settles, and the handler then runs to its end).                         *)
(***************************************************************************)
\* One answer to GET /records of every kind, one list among them.
SettleFetchResponses ==
    {r \in FetchResponses : r.hasRecords => r.list = <<RecOnlyChol, RecAllFour, RecNone>>}

submitSettles == FormMounted /\ \E r \in Responses : handleSubmitResume(r)

uploadSettles ==
    FormMounted /\ \E i \in 1..MaxInFlight, r \in Responses :
                       handleFileUploadResume(i, r)

loginSettles ==
    LoginMounted /\ \E r \in LoginResponses : loginHandleSubmitResume(r)

fetchSettles ==
    DashboardMounted /\ \E i \in 1..MaxInFlight, r \in SettleFetchResponses :
                            fetchRecordsResume(i, r)

saveSettles == DashboardMounted /\ \E r \in SaveResponses : saveNoteResume(r)

NextSettle ==
    \/ FormMounted /\ clickGetPrediction
    \/ submitSettles
    \/ FormMounted /\ \E file \in Files : handleFileUpload(file)
    \/ uploadSettles
    \/ LoginMounted /\ fillDemo
    \/ LoginMounted /\ loginHandleSubmit
    \/ loginSettles
    \/ DashboardMounted /\ fetchRecords
    \/ fetchSettles
    \/ DashboardMounted /\ setSelectedId("a")
    \/ DashboardMounted /\ setNotesText("Follow up in 2 weeks.")
    \/ DashboardMounted /\ saveNote
    \/ saveSettles

RequestsSettle ==
    /\ WF_vars(submitSettles)
    /\ WF_vars(uploadSettles)
    /\ WF_vars(loginSettles)
    /\ WF_vars(fetchSettles)
    /\ WF_vars(saveSettles)

SpecSettle == InitUI /\ [][NextSettle]_vars /\ RequestsSettle

(***************************************************************************)
(* The form page alone, with its navigation: the user answers the inputs   *)
(* of the step on display, moves with Previous and Next, and clicks Get    *)
(* Prediction when it is rendered and enabled.                             *)
(***************************************************************************)
\* The Next button: rendered at every step but the last.
clickNext ==
    /\ currentStep # totalSteps
    /\ nextStep

\* The Previous button: disabled at the first step.
clickPrevious ==
    /\ currentStep # 1
    /\ prevStep

\* The page starts at an empty or a complete record, with the result of an
\* earlier batch upload on display (SpecIO explores the upload itself).
InitForm ==
    /\ currentStep \in {1, totalSteps}
    /\ formData \in {AnsweredUpTo(0), AnsweredUpTo(Len(requiredFields)),
                      AnsweredUpTo(Len(FillOrder))}
    /\ result = NoData
    /\ loading = FALSE
    /\ fileResult = UploadData(Data("", "r1"), "a.csv")
    /\ fileLoading = FALSE
    /\ pendingPredict = 0
    /\ pendingUpload = <<>>
    /\ variant = 1
    /\ email = ""
    /\ password = ""
    /\ remember = TRUE
    /\ loginLoading = FALSE
    /\ error = ""
    /\ localStorage = EmptyStorage
    /\ sessionStorage = EmptyStorage
    /\ location = FormPath
    /\ pendingLogin = <<>>
    /\ DashInit /\ OutInit

NextForm ==
    \/ \E f \in StepFields(currentStep), v \in InputStrings :
            handleInputChange(f, v)
    \/ clickNext
    \/ clickPrevious
    \/ clickGetPrediction
    \/ \E r \in Responses : handleSubmitResume(r)

SpecForm == InitForm /\ [][NextForm]_vars

(***************************************************************************)
(* Properties                                                              *)
(***************************************************************************)
Thirteen ==
    {"age", "sex", "cp", "trestbps", "chol", "fbs", "restecg", "thalach",
     "exang", "oldpeak", "slope", "ca", "thal"}

ThirteenInOrder ==
    <<"age", "sex", "cp", "trestbps", "chol", "fbs", "restecg", "thalach",
      "exang", "oldpeak", "slope", "ca", "thal">>

\* The required fields the record leaves unset; a field holding a number,
\* 0 included, is set.
UnsetRequired == {f \in Thirteen : formData[f].k # "num"}

\* C1: the missing-fields set is exactly the set of unset required fields
\* (0 counts as set), and a handleSubmit call is blocked (an alert and no
\* request) exactly when that set is non-empty.
C1_MissingFieldsExact ==
    /\ SeqToSet(missingRequired) = UnsetRequired
    /\ op = "handleSubmit" =>
          /\ (Len(sent) = 0) <=> (UnsetRequired # {})
          /\ (alertMsg # "") <=> (UnsetRequired # {})

\* handleSubmit was blocked on a record whose only unset required field is
\* age, every other one holding 0.
C1_Witness ==
    /\ op = "handleSubmit"
    /\ UnsetRequired = {"age"}
    /\ formData["sex"] = JNum(0)
    /\ alertMsg = "Please fill required fields before submitting: age"
    /\ Len(sent) = 0

\* C2: the step stays in 1..6; nextStep at 6 and prevStep at 1 change
\* nothing, elsewhere they move the step by exactly +1 and -1.
C2_StepStaysInRange ==
    /\ [](currentStep \in 1..6)
    /\ [][/\ op' \in {"nextStep", "nextStep:noop"} =>
                currentStep' = IF currentStep = 6 THEN 6 ELSE currentStep + 1
          /\ op' \in {"prevStep", "prevStep:noop"} =>
                currentStep' = IF currentStep = 1 THEN 1 ELSE currentStep - 1]_vars

\* nextStep ran at the last step and left it there.
C2_Witness == op = "nextStep:noop" /\ currentStep = 6

\* C3: handleSubmit called with a non-empty missing set reports the missing
\* names, sends nothing and leaves record, step, loading and result alone.
C3_BlockedSubmitChangesNothing ==
    [][(op' = "handleSubmit" /\ UnsetRequired # {}) =>
          /\ alertMsg' = "Please fill required fields before submitting: "
                         \o Join(SelectSeq(ThirteenInOrder,
                                           LAMBDA f : f \in UnsetRequired), ", ")
          /\ Len(sent') = 0
          /\ pendingPredict' = pendingPredict
          /\ formData' = formData
          /\ currentStep' = currentStep
          /\ loading' = loading
          /\ result' = result]_vars

\* A blocked handleSubmit while an earlier prediction is displayed.
C3_Witness ==
    /\ op = "handleSubmit"
    /\ alertMsg = "Please fill required fields before submitting: thal"
    /\ result = Data("", "r1")

\* C4: a /predict request carries one object whose keys are exactly the
\* thirteen required names, each with the number the field holds, never
\* null and never the label.
C4_PayloadIsTheThirteenNumbers ==
    \A i \in 1..Len(sent) :
        sent[i].url = "/predict" =>
            /\ Len(sent) = 1
            /\ DOMAIN sent[i].body = Thirteen
            /\ \A f \in Thirteen :
                  /\ sent[i].body[f].k = "num"
                  /\ sent[i].body[f] = formData[f]

\* A request sent from a record that has the label set and a field at 0.
C4_Witness ==
    /\ Len(sent) = 1
    /\ sent[1].url = "/predict"
    /\ formData["target"] = JNum(1)
    /\ sent[1].body["sex"] = JNum(0)

\* A rule is satisfied when its field is a number at or above the threshold.
AtLeast(v, t) == v.k = "num" /\ v.n >= t

\* The sentences a record calls for, in rule order.
ExpectedSentences(rec) ==
    LET present == rec.hasInput
        rules == <<
            [hit |-> present /\ AtLeast(rec.chol, 240),
             text |-> "High cholesterol - suggest lipid profile & diet change."],
            [hit |-> present /\ AtLeast(rec.trestbps, 140),
             text |-> "High BP - consider antihypertensive review."],
            [hit |-> present /\ AtLeast(rec.oldpeak, 20),
             text |-> "Significant ST depression - cardiology consultation recommended."],
            [hit |-> AtLeast(rec.probability, 80),
             text |-> "High model probability - prioritize follow-up soon."]>>
        hits == SelectSeq(rules, LAMBDA x : x.hit)
    IN  [i \in 1..Len(hits) |-> hits[i].text]

\* C5: the advisory of the selected record is the space-joined list, in rule
\* order, of the sentences whose rule holds (boundaries included, absent and
\* null fields contributing nothing); chol 250, trestbps 130, oldpeak 1.0,
\* probability 0.5 gives the cholesterol sentence alone.
C5_AdvisoryIsTheSatisfiedRules ==
    \A i \in 1..Len(records) :
        (records[i].id = selectedId) =>
            /\ aiSuggestion = Join(ExpectedSentences(records[i]), " ")
            /\ (records[i] = Rec("a", JNum(250), JNum(130), JNum(10), JNum(50))) =>
                  aiSuggestion =
                      "High cholesterol - suggest lipid profile & diet change."
            /\ (/\ AtLeast(records[i].chol, 240)
                /\ AtLeast(records[i].trestbps, 140)
                /\ AtLeast(records[i].oldpeak, 20)
                /\ AtLeast(records[i].probability, 80)) =>
                  aiSuggestion =
                      "High cholesterol - suggest lipid profile & diet change. "
                      \o "High BP - consider antihypertensive review. "
                      \o "Significant ST depression - cardiology consultation recommended. "
                      \o "High model probability - prioritize follow-up soon."

\* The record whose four values sit on the thresholds is selected.
C5_Witness ==
    /\ selectedId = "b"
    /\ \E i \in 1..Len(records) :
          /\ records[i].id = "b"
          /\ records[i].chol = JNum(240)
          /\ records[i].probability = JNum(80)
    /\ aiSuggestion # ""

\* C6: a login submission with an empty password or an empty username/email
\* sends nothing: it sets an error, writes no storage, does not navigate and
\* leaves loading false.
C6_EmptyCredentialsSendNothing ==
    [][(op' \in {"login:invalid", "login:sent"}
        /\ (email = "" \/ password = "")) =>
          /\ Len(sent') = 0
          /\ error' # ""
          /\ Len(effects') = 0
          /\ localStorage' = localStorage
          /\ sessionStorage' = sessionStorage
          /\ location' = location
          /\ loginLoading' = FALSE
          /\ pendingLogin' = pendingLogin]_vars

\* A submission with a username and no password was refused.
C6_Witness ==
    /\ op = "login:invalid"
    /\ email = "dr_raj"
    /\ password = ""
    /\ error = "Please enter password."

\* A success answer: fetch resolved with res.ok and a JSON object.
SuccessAnswer(r) == r.kind = "json" /\ r.ok /\ ~r.data.isNull

\* The flag-bearing shape: no token, and ok or username.
FlagShape(r) ==
    SuccessAnswer(r) /\ r.data.token = "" /\ (r.data.okFlag \/ r.data.username # "")

\* C7: a flag-bearing success answer navigates to the server's next target
\* when it names one and to /doctor/dashboard otherwise
\* ({ok: true, username: "dr_raj"} goes to /doctor/dashboard).
C7_FlagShapeNavigatesToNext ==
    [][\A r \in LoginResponses :
          (/\ variant = 1
           /\ FlagShape(r)
           /\ op' = "login:ok"
           /\ loginHandleSubmitResume(r)) =>
              LET target == IF r.data.next # "" THEN r.data.next
                            ELSE "/doctor/dashboard"
              IN  /\ location' = target
                  /\ Len(effects') > 0
                  /\ effects'[Len(effects')] = Navigate(target)
                  /\ \A i \in 1..(Len(effects') - 1) :
                        effects'[i].e # "navigate"]_vars

\* The answer {ok: true, username: "dr_raj"} led to /doctor/dashboard.
C7_Witness ==
    /\ op = "login:ok"
    /\ location = "/doctor/dashboard"
    /\ localStorage["authUser"] = "{\"username\":\"dr_raj\"}"
    /\ localStorage["authToken"] = NoItem

\* The shapes a component accepts: a token, or (first component) a flag.
AcceptedShape(r) ==
    /\ SuccessAnswer(r)
    /\ \/ r.data.token # ""
       \/ variant = 1 /\ (r.data.okFlag \/ r.data.username # "")

\* C8: on a success answer of an accepted shape the flow writes session
\* information to storage and then navigates once, every write first.
C8_StorageWriteBeforeNavigation ==
    [][\A r \in LoginResponses :
          (/\ AcceptedShape(r)
           /\ op' = "login:ok"
           /\ loginHandleSubmitResume(r)) =>
              LET n == Len(effects') IN
              /\ n >= 2
              /\ effects'[n].e = "navigate"
              /\ location' = effects'[n].value
              /\ \A i \in 1..(n - 1) :
                    /\ effects'[i].e = "setItem"
                    /\ effects'[i].store = "local" =>
                          localStorage'[effects'[i].key] = effects'[i].value
                    /\ effects'[i].store = "session" =>
                          sessionStorage'[effects'[i].key] = effects'[i].value]_vars

\* A token-bearing answer with a user: two writes, then the navigation.
C8_Witness ==
    /\ op = "login:ok"
    /\ Len(effects) = 3
    /\ effects[1].key = "authToken"
    /\ effects[2].key = "authUser"
    /\ effects[3].e = "navigate"

\* C9: a login request that ends in a non-success answer or a transport
\* error sets an error, does not navigate, writes no storage, and sends no
\* further request; requests leave only on a submission.
C9_FailedLoginStaysOnLogin ==
    [][/\ \A r \in LoginResponses :
            (/\ r.kind = "reject" \/ ~r.ok
             /\ op' \in {"login:catch", "login:notok"}
             /\ loginHandleSubmitResume(r)) =>
                /\ error' # ""
                /\ Len(effects') = 0
                /\ location' = location
                /\ localStorage' = localStorage
                /\ sessionStorage' = sessionStorage
                /\ Len(sent') = 0
                /\ pendingLogin' = <<>>
       /\ Len(sent') > 0 => op' = "login:sent"]_vars

\* A non-success answer with a server message left the user on the login page.
C9_Witness ==
    /\ op = "login:notok"
    /\ error = "Bad credentials"
    /\ location = LoginPath
    /\ localStorage = EmptyStorage
    /\ sessionStorage = EmptyStorage

\* An answer that is a transport failure or a non-success response.
Failure(r) == r.kind = "reject" \/ ~r.ok

\* C10: a single or batch submission that fails raises a message, leaves the
\* thirteen fields, the label and the step as they were, and sent exactly
\* one request (the failure sends none).
C10_FailedSubmissionLeavesForm ==
    [][/\ \A r \in Responses :
            (Failure(r) /\ handleSubmitResume(r)) =>
                /\ alertMsg' # ""
                /\ formData' = formData
                /\ currentStep' = currentStep
                /\ Len(sent') = 0
                /\ pendingPredict' = pendingPredict - 1
       /\ \A r \in Responses, i \in 1..Len(pendingUpload) :
            (Failure(r) /\ handleFileUploadResume(i, r)) =>
                /\ alertMsg' # ""
                /\ formData' = formData
                /\ currentStep' = currentStep
                /\ Len(sent') = 0
                /\ Len(pendingUpload') = Len(pendingUpload) - 1
       /\ (Len(sent') > 0) =>
                /\ Len(sent') = 1
                /\ formData' = formData
                /\ currentStep' = currentStep
                /\ Len(pendingUpload') + pendingPredict'
                      = Len(pendingUpload) + pendingPredict + 1]_vars

\* A failed single submission from the complete record at the last step.
C10_Witness ==
    /\ op = "handleSubmit:catch"
    /\ alertMsg = "Failed to connect to server. Make sure the backend is running."
    /\ formData = AnsweredUpTo(14)
    /\ currentStep = 6
    /\ pendingPredict = 0

\* A step that issued the request named by url.
Issued(url) == Len(sent') = 1 /\ sent'[1].url = url

\* C11, as stated: a failed single or batch submission leaves displayed the
\* result that was displayed before the submission, so neither issuing the
\* request nor its failure changes the displayed results.
C11_PriorResultStillDisplayed ==
    [][/\ (Issued("/predict") \/ Issued("/predict-file")) =>
              (result' = result /\ fileResult' = fileResult)
       /\ \A r \in Responses :
             (Failure(r) /\ handleSubmitResume(r)) =>
                 (result' = result /\ fileResult' = fileResult)
       /\ \A r \in Responses, i \in 1..Len(pendingUpload) :
             (Failure(r) /\ handleFileUploadResume(i, r)) =>
                 (result' = result /\ fileResult' = fileResult)]_vars

\* C11, amended: issuing a single (batch) request clears the displayed
\* single (batch) result and leaves the other one; the failure of either
\* request changes neither displayed result.
C11_FailureKeepsClearedResult ==
    [][/\ Issued("/predict") => (result' = NoData /\ fileResult' = fileResult)
       /\ Issued("/predict-file") =>
              (fileResult' = NoFileData /\ result' = result)
       /\ \A r \in Responses :
             (Failure(r) /\ handleSubmitResume(r)) =>
                 (result' = result /\ fileResult' = fileResult)
       /\ \A r \in Responses, i \in 1..Len(pendingUpload) :
             (Failure(r) /\ handleFileUploadResume(i, r)) =>
                 (result' = result /\ fileResult' = fileResult)]_vars

\* A batch upload failed while an earlier prediction is displayed: the batch
\* result is empty, the prediction is still there.
C11_Witness ==
    /\ op = "handleFileUpload:notok"
    /\ fileResult = NoFileData
    /\ result = Data("", "r1")
    /\ pendingUpload = <<>>

\* C12: a save-note operation (the call and the handling of its answer) never
\* changes the record list or the selected id; a success answer ends with
\* the confirmation, a non-success answer, a transport failure and an
\* unreadable body each end with a failure message.
C12_SaveNoteLeavesRecordsAndSelection ==
    [][/\ saveNote => (records' = records /\ selectedId' = selectedId)
       /\ \A r \in SaveResponses :
             saveNoteResume(r) =>
                 /\ records' = records
                 /\ selectedId' = selectedId
                 /\ (r.kind = "json" /\ r.ok) =>
                        message' = "Note saved successfully"
                 /\ (r.kind = "json" /\ ~r.ok) =>
                        message' = "Failed to save note"
                 /\ (r.kind = "reject") =>
                        message' = "Network error while saving note."
                 /\ (r.kind = "notjson") =>
                        message' \in {"Failed to save note",
                                      "Network error while saving note."}]_vars

\* A note on record "a" was saved while the fetched list is displayed.
C12_Witness ==
    /\ op = "saveNote:ok"
    /\ message = "Note saved successfully"
    /\ selectedId = "a"
    /\ Len(records) = 3
    /\ pendingSave = 0

\* The positions of the current list whose record has the selected id.
SelectedRows == {i \in 1..Len(records) : records[i].id = selectedId}

\* C13: in every dashboard state the displayed advisory is the advisory of
\* the record of the current list that has the selected id, and is empty
\* when nothing is selected or no record of the list has that id.
C13_AdvisoryFollowsSelectionAndList ==
    IF selectedId = "" \/ SelectedRows = {}
    THEN aiSuggestion = ""
    ELSE LET first == CHOOSE i \in SelectedRows : \A j \in SelectedRows : i <= j
         IN  aiSuggestion = Join(ExpectedSentences(records[first]), " ")

\* Record "a" was selected in one list and a refresh brought the list in
\* which it is re-scored: the advisory is the one of the new values.
C13_Witness ==
    /\ op = "fetchRecords:ok"
    /\ selectedId = "a"
    /\ Len(records) = 3
    /\ records[1] = RecChanged
    /\ aiSuggestion # "High cholesterol - suggest lipid profile & diet change."
    /\ aiSuggestion # ""

\* A success answer to a single assessment: res.ok with a JSON body.
PredictSuccess(r) == r.kind = "json" /\ r.ok

\* C14, as stated: the record is empty at mount (step 1), and once a
\* single-assessment request has returned success the thirteen fields and
\* the label are unset again.
C14_RecordDiscardedAfterSuccess ==
    /\ [](op = "mount" => (formData = initialFormData /\ currentStep = 1))
    /\ [][\A r \in Responses :
             (PredictSuccess(r) /\ handleSubmitResume(r)) =>
                 \A f \in Thirteen \cup {"target"} : formData'[f] = JStr("")]_vars

\* C14, amended: the record is empty at mount (step 1), and a success answer
\* to a single assessment leaves the thirteen fields, the label and the step
\* as they were.
C14_RecordKeptAfterSuccess ==
    /\ [](op = "mount" =>
             /\ \A f \in Thirteen \cup {"target"} : formData[f] = JStr("")
             /\ currentStep = 1)
    /\ [][\A r \in Responses :
             (PredictSuccess(r) /\ handleSubmitResume(r)) =>
                 (formData' = formData /\ currentStep' = currentStep)]_vars

\* A prediction is displayed and the form still holds the submitted record.
C14_Witness ==
    /\ op = "handleSubmit:ok"
    /\ result = Data("", "r1")
    /\ \A f \in Thirteen : formData[f].k = "num"
    /\ currentStep = 6

\* The values the optional label may hold.
LabelValues == {JStr(""), JNum(0), JNum(1), JNull, JUndef}

\* C15: the label never influences submission: a record that differs from
\* the current one in the label alone has the same missing-fields list, is
\* permitted to submit in the same cases and gives the same payload, which
\* is the payload of the request handleSubmit sent.
C15_LabelNeverInfluencesSubmission ==
    \A v \in LabelValues :
        LET other == [formData EXCEPT !["target"] = v] IN
        /\ missingRequiredOf(other) = missingRequired
        /\ (Len(missingRequiredOf(other)) = 0) <=> (Len(missingRequired) = 0)
        /\ payloadOf(other) = payloadOf(formData)
        /\ (op = "handleSubmit" /\ Len(sent) = 1) =>
               sent[1].body = payloadOf(other)

\* A labelled, complete record was submitted.
C15_Witness ==
    /\ op = "handleSubmit"
    /\ formData["target"] = JNum(1)
    /\ Len(missingRequired) = 0
    /\ Len(sent) = 1
    /\ DOMAIN sent[1].body = Thirteen

C17_TransportFailureIsReported ==
    [][/\ \A r \in Responses :
             (r.kind = "reject" /\ handleSubmitResume(r)) => alertMsg' # ""
       /\ \A r \in Responses, i \in 1..Len(pendingUpload) :
             (r.kind = "reject" /\ handleFileUploadResume(i, r)) =>
                 alertMsg' # ""
       /\ \A r \in LoginResponses :
             (r.kind = "reject" /\ op' = "login:catch"
              /\ loginHandleSubmitResume(r)) => error' # ""
       /\ \A r \in SaveResponses :
             (r.kind = "reject" /\ saveNoteResume(r)) => message' # ""
       /\ \A r \in FetchResponses, i \in 1..Len(pendingFetch) :
             (r.kind = "reject" /\ fetchRecordsResume(i, r)) =>
                 (message' # "" \/ alertMsg' # "")]_vars

\* A non-success answer with a JSON object as body.
NonSuccess(r) == r.kind = "json" /\ ~r.ok /\ ~r.data.isNull

\* C18: a non-success answer is reported with the message the server
\* supplied when the body carries one, and with the call's generic fallback
\* only when it carries none - for the single-assessment, batch-upload,
\* login and save-note calls.
C18_ServerMessageIsReported ==
    [][/\ \A r \in Responses :
             (NonSuccess(r) /\ handleSubmitResume(r)) =>
                 alertMsg' = IF r.data.error # "" THEN r.data.error
                             ELSE "Server returned an error"
       /\ \A r \in Responses, i \in 1..Len(pendingUpload) :
             (NonSuccess(r) /\ handleFileUploadResume(i, r)) =>
                 alertMsg' = IF r.data.error # "" THEN r.data.error
                             ELSE "Upload failed"
       /\ \A r \in LoginResponses :
             (NonSuccess(r) /\ op' = "login:notok"
              /\ loginHandleSubmitResume(r)) =>
                 IF r.data.error = "" /\ r.data.message = ""
                 THEN error' = "Login failed. Check credentials."
                 ELSE error' \in {r.data.error, r.data.message} \ {""}
       /\ \A r \in SaveResponses :
             (r.kind = "json" /\ ~r.ok /\ saveNoteResume(r)) =>
                 message' = IF r.error # "" THEN r.error
                            ELSE "Failed to save note"]_vars

\* C19: no answer is cancelled.  When the success answer to a records fetch
\* (batch upload) arrives after the answer to a later-issued one, the record
\* list (batch result) becomes the data of that earlier-issued request.
C19_StaleAnswerOverwrites ==
    [][/\ \A r \in FetchResponses, i \in 1..Len(pendingFetch) :
             (/\ op' = "fetchRecords:ok"
              /\ pendingFetch[i].overtaken
              /\ r.kind = "json" /\ r.ok /\ ~r.isNull
              /\ fetchRecordsResume(i, r)) =>
                 records' = IF r.hasRecords THEN r.list ELSE <<>>
       /\ \A r \in Responses, i \in 1..Len(pendingUpload) :
             (/\ op' = "handleFileUpload:ok"
              /\ pendingUpload[i].overtaken
              /\ r.kind = "json" /\ r.ok
              /\ handleFileUploadResume(i, r)) =>
                 /\ fileResult'.id = r.data.id
                 /\ fileResult'.isNull = r.data.isNull
                 /\ ~r.data.isNull => fileResult'.filename = pendingUpload[i].file]_vars

\* The answer to the later upload (b.csv) is displayed while the earlier
\* upload (a.csv) is still in flight.
C19_Witness ==
    /\ Len(pendingUpload) = 1
    /\ pendingUpload[1].overtaken
    /\ pendingUpload[1].file = "a.csv"
    /\ fileResult.filename = "b.csv"
    /\ op = "handleFileUpload:ok"

\* C20: a successful login stores the session information in the scope the
\* remember option selected at submission: every write goes to long-lived
\* storage (localStorage) when it was checked and to short-lived storage
\* (sessionStorage) when it was unchecked, so that an unchecked login leaves
\* long-lived storage as it was.
C20_StorageScopeFollowsRemember ==
    [][op' = "login:ok" =>
          LET scope == IF Head(pendingLogin).remember THEN "local"
                       ELSE "session"
              writes == {i \in 1..Len(effects') : effects'[i].e = "setItem"}
          IN  /\ writes # {}
              /\ \A i \in writes : effects'[i].store = scope
              /\ ~Head(pendingLogin).remember =>
                     localStorage' = localStorage]_vars


\* A 2xx answer whose body has no token, no ok flag and no username (a body
\* that is not JSON reads as {}).
ShapelessSuccess(r) ==
    /\ r.kind \in {"json", "notjson"}
    /\ r.ok
    /\ LoginData(r).token = ""
    /\ ~LoginData(r).okFlag
    /\ LoginData(r).username = ""

\* C21: a success answer that has neither a token nor an ok flag nor a
\* username is treated as an error: an error message is set, neither
\* browser storage is written and the page does not navigate.
C21_ShapelessSuccessIsAnError ==
    [][\A r \in LoginResponses :
          (ShapelessSuccess(r) /\ loginHandleSubmitResume(r)) =>
              /\ error' # ""
              /\ effects' = <<>>
              /\ localStorage' = localStorage
              /\ sessionStorage' = sessionStorage
              /\ location' = location]_vars

C21_Witness ==
    /\ op = "login:unexpected"
    /\ error \in {"Login succeeded but response shape unexpected. Check backend.",
                  "Login succeeded but token missing. Check backend."}
    /\ location = LoginPath
    /\ localStorage = EmptyStorage
    /\ sessionStorage = EmptyStorage


\* The navigations among the effects of a step.
Navigations(effs) == {i \in 1..Len(effs) : effs[i].e = "navigate"}

\* A login submission ends in this step: an answer is consumed, or the
\* submission is refused by validate.
LoginCompletes ==
    Len(pendingLogin') < Len(pendingLogin) \/ op' = "login:invalid"

\* C22: when a login submission completes, either exactly one navigation
\* occurred and no error message is set, or an error message is set and no
\* navigation occurred; an answer carrying both a token and a next target
\* navigates once, to /doctor/dashboard.
C22_NavigateOnceOrError ==
    [][/\ LoginCompletes =>
              \/ Cardinality(Navigations(effects')) = 1 /\ error' = ""
              \/ Navigations(effects') = {} /\ error' # ""
                    /\ location' = location
       /\ \A r \in LoginResponses :
              (/\ r.kind = "json" /\ r.ok /\ ~r.data.isNull
               /\ r.data.token # "" /\ r.data.next # ""
               /\ loginHandleSubmitResume(r)) =>
                  /\ Cardinality(Navigations(effects')) = 1
                  /\ \A i \in Navigations(effects') :
                         effects'[i].value = DashboardPath
                  /\ location' = DashboardPath]_vars

C22_Witness ==
    /\ op = "login:ok"
    /\ Cardinality(Navigations(effects)) = 1
    /\ error = ""
    /\ location = DashboardPath
    /\ "tok" \in {localStorage["authToken"], sessionStorage["authToken"]}


LoginUrls == {"/auth/login-file", "/auth/login"}

\* C23: every login request that is issued carries a non-empty username and
\* a non-empty password.
C23_LoginRequestHasCredentials ==
    \A i \in 1..Len(sent) :
        sent[i].url \in LoginUrls =>
            sent[i].id # "" /\ sent[i].password # ""


\* C24: a single-assessment request is issued only while the form is at
\* step 6: no sequence of navigation, field changes and button clicks sends
\* a prediction request from steps 1 to 5.
C24_PredictionOnlyFromLastStep ==
    [][Issued("/predict") =>
           currentStep = totalSteps /\ currentStep' = totalSteps]_vars

\* A request was sent from the last step after the user walked the steps
\* (the record on display is complete and the request is in flight).
C24_Witness ==
    /\ op = "handleSubmit"
    /\ Len(sent) = 1
    /\ sent[1].url = "/predict"
    /\ currentStep = totalSteps
    /\ pendingPredict > 0


\* C25: for the single assessment, the batch upload, the login, the records
\* fetch and the save-note operation, once the request is answered or
\* fails the busy flag of the operation (loading, fileLoading, saving)
\* returns to false, whichever path the answer takes.
C25_BusyFlagsReturnToFalse ==
    /\ loading ~> ~loading
    /\ fileLoading ~> ~fileLoading
    /\ loginLoading ~> ~loginLoading
    /\ dashLoading ~> ~dashLoading
    /\ saving ~> ~saving

\* A request failed at the transport and its flag is back to false.
C25_Witness ==
    /\ op \in {"handleSubmit:catch", "handleFileUpload:catch", "login:catch",
               "fetchRecords:catch", "saveNote:catch"}
    /\ ~loading /\ ~fileLoading /\ ~loginLoading /\ ~dashLoading /\ ~saving


\* C26: in every dashboard state the loading flag is true exactly when at
\* least one records fetch is in flight, overlapping fetches included.
C26_LoadingIffFetchInFlight ==
    dashLoading <=> Len(pendingFetch) > 0


\* What a field holds after v was typed in it (every field is numeric).
TypedValue == [v \in InputStrings |-> IF v # "" THEN Number(JStr(v)) ELSE JStr(v)]

\* C27: a field change sets only the named field of the record and leaves
\* every other field (the other required fields and the label), the step
\* pointer and the displayed results unchanged; nextStep and prevStep leave
\* the whole record and the displayed results unchanged.  The field named is
\* one of the inputs on display; the two tests that precede each handler
\* are implied by it and only spare its evaluation.
C27_FieldChangeAndNavigationFrames ==
    [][/\ op' = "handleInputChange" =>
              \A f \in StepFields(currentStep), v \in InputStrings :
                  (formData'[f] = TypedValue[v] /\ handleInputChange(f, v)) =>
                      /\ \A g \in FieldNames \ {f} :
                             formData'[g] = formData[g]
                      /\ currentStep' = currentStep
                      /\ result' = result
                      /\ fileResult' = fileResult
       /\ op' \in {"nextStep", "nextStep:noop", "prevStep", "prevStep:noop"} =>
              ((nextStep \/ prevStep) =>
                   /\ formData' = formData
                   /\ result' = result
                   /\ fileResult' = fileResult)]_vars

\* A field was changed while a prediction and a batch result are on
\* display.
C27_Witness ==
    /\ op = "handleInputChange"
    /\ ~result.isNull
    /\ ~fileResult.isNull
    /\ formData # initialFormData


\* C28: saveNote invoked with no selected record id, or with a note that is
\* empty or whitespace-only, issues no request, sets the message that tells
\* what is missing, and leaves the saving flag, the note text, the selection
\* and the record list unchanged.
C28_RefusedSaveChangesOnlyMessage ==
    [][((selectedId = "" \/ TrimNote(notesText) = "") /\ saveNote) =>
           /\ sent' = <<>>
           /\ pendingSave' = pendingSave
           /\ message' = IF selectedId = "" THEN "Select a record first."
                         ELSE "Write a note first."
           /\ saving' = saving
           /\ notesText' = notesText
           /\ selectedId' = selectedId
           /\ records' = records]_vars

\* A record is selected in a fetched list and the note is a single space.
C28_Witness ==
    /\ op = "saveNote:nonote"
    /\ message = "Write a note first."
    /\ notesText = " "
    /\ selectedId # ""
    /\ Len(records) > 0
    /\ ~saving
    /\ pendingSave = 0


\* C29: every save-note request is keyed by the id of a record present in
\* the fetched list at the time it is issued, and the suggested_by_ai text
\* it carries is the advisory string of that record.
C29_SaveKeyedByListedRecord ==
    op = "saveNote:sent" =>
        /\ Len(sent) = 1
        /\ \E i \in 1..Len(records) :
               /\ records[i].id = sent[1].id
               /\ sent[1].suggested_by_ai =
                      Join(ExpectedSentences(records[i]), " ")

=============================================================================
